---- MODULE Spec2Model ----
(***************************************************************************)
(* Model of atom_model/src/main.rs: the per-frame Update systems of the    *)
(* atom demo (orbit_tilt_control, orbit_electron_system,                   *)
(* fly_camera_controller, grid) and the state that setup creates.          *)
(*                                                                         *)
(* f32 values are fixed-point integers in units of 1/Scale: radians,       *)
(* seconds and world units are all held in thousandths.                    *)
(***************************************************************************)
EXTENDS Integers, Sequences, FiniteSets

\* ------------------------------------------------------------ bounds

\* Number of frames (Update ticks) explored.
MaxFrames == 3

\* Capacity of the trace buffer (ElectronTrace.max_points; 5000 in setup).
MaxPoints == 2

\* Frame delta times offered by the Time resource, in thousandths of a second.
Deltas == {0, 800}

\* Keyboard states offered by ButtonInput<KeyCode>.
KeyCombos ==
    { {},
      {"ArrowUp", "Space"},
      {"ArrowUp", "ArrowDown", "ArrowLeft"},
      {"ArrowDown", "ArrowRight", "KeyW", "KeyS"},
      {"KeyW", "KeyD", "KeyQ", "Space"},
      {"KeyA", "KeyE"} }

\* ------------------------------------------------------------ f32 arithmetic

Scale == 1000

Abs(a) == IF a < 0 THEN -a ELSE a

\* a * b, rounded to nearest, symmetric in sign.
Mul(a, b) ==
    LET p == a * b
    IN  IF p >= 0 THEN (p + Scale \div 2) \div Scale
                  ELSE -((-p + Scale \div 2) \div Scale)

\* a / b, truncated toward zero, b # 0.
Div(a, b) ==
    LET p == a * Scale
    IN  IF (p >= 0) = (b > 0) THEN Abs(p) \div Abs(b) ELSE -(Abs(p) \div Abs(b))

RECURSIVE ISqrtIter(_, _)
ISqrtIter(n, x) ==
    LET y == (x + n \div x) \div 2
    IN  IF y >= x THEN x ELSE ISqrtIter(n, y)

\* floor(sqrt(n)) for n >= 0.
ISqrt(n) == IF n = 0 THEN 0 ELSE ISqrtIter(n, n)

\* sqrt of a fixed-point value.
Sqrt(a) == ISqrt(a * Scale)

HalfPi == 1571
Pi == 3142
TwoPi == 6283

\* sin on [0, pi/2]: x - x^3/3! + x^5/5! - x^7/7!
SinQ(x) ==
    LET x2 == Mul(x, x)
        t3 == Mul(x, x2) \div 6
        t5 == Mul(t3, x2) \div 20
        t7 == Mul(t5, x2) \div 42
        s  == x - t3 + t5 - t7
    IN  IF s > Scale THEN Scale ELSE s

\* f32::sin
Sin(x) ==
    LET r == x % TwoPi
    IN  IF r <= HalfPi THEN SinQ(r)
        ELSE IF r <= Pi THEN SinQ(Pi - r)
        ELSE IF r <= Pi + HalfPi THEN -SinQ(r - Pi)
        ELSE -SinQ(TwoPi - r)

\* f32::cos
Cos(x) == IF x = 0 THEN Scale ELSE Sin(x + HalfPi)

\* ------------------------------------------------------------ Vec3 / Quat

Vec3(x, y, z) == <<x, y, z>>
VecZero == <<0, 0, 0>>
VecX == <<Scale, 0, 0>>
VecY == <<0, Scale, 0>>
VecZ == <<0, 0, Scale>>

VecAdd(a, b) == <<a[1] + b[1], a[2] + b[2], a[3] + b[3]>>
VecSub(a, b) == <<a[1] - b[1], a[2] - b[2], a[3] - b[3]>>
VecNeg(a) == <<-a[1], -a[2], -a[3]>>
VecScale(a, s) == <<Mul(a[1], s), Mul(a[2], s), Mul(a[3], s)>>
Dot(a, b) == Mul(a[1], b[1]) + Mul(a[2], b[2]) + Mul(a[3], b[3])
Cross(a, b) ==
    << Mul(a[2], b[3]) - Mul(a[3], b[2]),
       Mul(a[3], b[1]) - Mul(a[1], b[3]),
       Mul(a[1], b[2]) - Mul(a[2], b[1]) >>

\* Vec3::length_squared, in units of 1/Scale^2 (exact).
LengthSquared(a) == a[1] * a[1] + a[2] * a[2] + a[3] * a[3]

\* Vec3::normalize. On the zero vector f32 yields NaN components; the model
\* returns the vector unchanged and records the event in zeroNormalized.
Normalize(a) ==
    LET len == ISqrt(LengthSquared(a))
    IN  IF len = 0 THEN a
        ELSE <<Div(a[1], len), Div(a[2], len), Div(a[3], len)>>

\* Quaternions are <<x, y, z, w>>.
QuatIdentity == <<0, 0, 0, Scale>>

\* Quat::from_axis_angle(axis, angle), axis a unit vector.
FromAxisAngle(axis, a) ==
    LET h == IF a >= 0 THEN a \div 2 ELSE -((-a) \div 2)
        s == IF h >= 0 THEN Sin(h) ELSE -Sin(-h)
        c == IF h >= 0 THEN Cos(h) ELSE Cos(-h)
    IN  <<Mul(axis[1], s), Mul(axis[2], s), Mul(axis[3], s), c>>

\* Quat * Quat
QuatMul(p, q) ==
    << Mul(p[4], q[1]) + Mul(p[1], q[4]) + Mul(p[2], q[3]) - Mul(p[3], q[2]),
       Mul(p[4], q[2]) - Mul(p[1], q[3]) + Mul(p[2], q[4]) + Mul(p[3], q[1]),
       Mul(p[4], q[3]) + Mul(p[1], q[2]) - Mul(p[2], q[1]) + Mul(p[3], q[4]),
       Mul(p[4], q[4]) - Mul(p[1], q[1]) - Mul(p[2], q[2]) - Mul(p[3], q[3]) >>

\* Quat * Vec3
QuatRotate(q, v) ==
    LET b  == <<q[1], q[2], q[3]>>
        w  == q[4]
        b2 == Dot(b, b)
    IN  VecAdd(VecAdd(VecScale(v, Mul(w, w) - b2),
                      VecScale(b, 2 * Dot(v, b))),
               VecScale(Cross(b, v), 2 * w))

\* Quat::from_mat3 of the rotation whose columns are x, y, z.
FromRotationAxes(x, y, z) ==
    LET half == Scale \div 2
    IN  IF z[3] <= 0
        THEN LET dif10 == y[2] - x[1]
                 omm22 == Scale - z[3]
             IN  IF dif10 <= 0
                 THEN LET four == omm22 - dif10
                          inv  == Div(half, Sqrt(four))
                      IN  <<Mul(four, inv), Mul(x[2] + y[1], inv),
                            Mul(x[3] + z[1], inv), Mul(y[3] - z[2], inv)>>
                 ELSE LET four == omm22 + dif10
                          inv  == Div(half, Sqrt(four))
                      IN  <<Mul(x[2] + y[1], inv), Mul(four, inv),
                            Mul(y[3] + z[2], inv), Mul(z[1] - x[3], inv)>>
        ELSE LET sum10 == y[2] + x[1]
                 opm22 == Scale + z[3]
             IN  IF sum10 <= 0
                 THEN LET four == opm22 - sum10
                          inv  == Div(half, Sqrt(four))
                      IN  <<Mul(x[3] + z[1], inv), Mul(y[3] + z[2], inv),
                            Mul(four, inv), Mul(x[2] - y[1], inv)>>
                 ELSE LET four == opm22 + sum10
                          inv  == Div(half, Sqrt(four))
                      IN  <<Mul(y[3] - z[2], inv), Mul(z[1] - x[3], inv),
                            Mul(x[2] - y[1], inv), Mul(four, inv)>>

\* Transform::from_xyz(..).looking_at(target, up)
LookingAt(translation, target, up) ==
    LET back  == VecNeg(Normalize(VecSub(target, translation)))
        right == Normalize(Cross(up, back))
        up2   == Cross(back, right)
    IN  [translation |-> translation,
         rotation    |-> FromRotationAxes(right, up2, back)]

\* Transform::from_xyz
FromXyz(x, y, z) == [translation |-> Vec3(x, y, z), rotation |-> QuatIdentity]

\* Transform::forward and Transform::right
Forward(t) == QuatRotate(t.rotation, VecNeg(VecZ))
Right(t) == QuatRotate(t.rotation, VecX)

\* ------------------------------------------------------------ program constants

\* orbit_electron_system: radius, speed
Radius == 2000
Speed == 1000

\* orbit_tilt_control: tilt_amplitude, tilt_speed
TiltAmplitude == 1000
TiltSpeed == 100

\* fly_camera_controller: speed, rot_speed, pitch clamp
MoveSpeed == 5000
RotSpeed == 1500
PitchLimit == 1540

\* Entities that carry a Transform and are written or read by the systems.
Entities == {"MainCamera", "GameViewCamera", "Electron"}

\* The entities matched by Query<(&mut Transform, &mut FlyCamera)>.
FlyCameraEntities == {"MainCamera"}

\* A Single query aimed at the wrong marker component.
SingleWithFlyCamera == "MainCamera"

\* The entity matched by Single<&mut Transform, With<Electron>>.
ElectronEntity == "Electron"

\* The Update systems that write modelled state, in registration order.
Systems == {"grid", "fly_camera_controller", "orbit_electron_system",
            "orbit_tilt_control"}

\* ------------------------------------------------------------ state

VARIABLES
    elapsed,        \* Time::elapsed_secs
    delta,          \* Time::delta_secs
    pressed,        \* ButtonInput::pressed
    just_pressed,   \* ButtonInput::just_pressed
    angle,          \* OrbitAngle.0
    tilt,           \* OrbitTilt.0
    points,         \* ElectronTrace.points
    transform,      \* Transform of each entity
    fly_camera,     \* FlyCamera of each entity that has one
    grid_enabled,   \* Grid.enabled
    frame,          \* number of frames started
    pending,        \* Update systems that have not yet run in this frame
    pushed,         \* history: every position pushed to the trace
    tiltRead,       \* history: the tilt orbit_electron_system last read
    zeroNormalized, \* history: normalize was called on the zero vector
    ranBeforeOrbit, \* history: the systems that ran before orbit_electron_system
                    \* in this frame
    start           \* history: the state and input at the start of the frame

vars == <<elapsed, delta, pressed, just_pressed, angle, tilt, points, transform,
          fly_camera, grid_enabled, frame, pending, pushed, tiltRead,
          zeroNormalized, ranBeforeOrbit, start>>

\* The program state the systems read and write.
World ==
    [angle |-> angle, tilt |-> tilt, points |-> points, transform |-> transform,
     fly_camera |-> fly_camera, grid_enabled |-> grid_enabled]

\* The Time resource as the systems see it.
Time == [delta |-> delta, elapsed |-> elapsed]

\* The ButtonInput<KeyCode> resource as the systems see it.
Keys == [pressed |-> pressed, just_pressed |-> just_pressed]

\* ------------------------------------------------------------ setup

\* The state after the Startup system has run.
Setup ==
    [angle |-> 0,
     tilt |-> 0,
     points |-> <<>>,
     transform |->
        [e \in Entities |->
            IF e = "Electron" THEN FromXyz(2 * Scale, 0, 0)
            ELSE LookingAt(Vec3(5 * Scale, 5 * Scale, 5 * Scale), VecZero, VecY)],
     fly_camera |-> [e \in FlyCameraEntities |-> [yaw |-> 0, pitch |-> 0]],
     grid_enabled |-> FALSE]

Init ==
    /\ elapsed = 0
    /\ delta = 0
    /\ pressed = {}
    /\ just_pressed = {}
    /\ angle = Setup.angle
    /\ tilt = Setup.tilt
    /\ points = Setup.points
    /\ transform = Setup.transform
    /\ fly_camera = Setup.fly_camera
    /\ grid_enabled = Setup.grid_enabled
    /\ frame = 0
    /\ pending = {}
    /\ pushed = <<>>
    /\ tiltRead = 0
    /\ zeroNormalized = FALSE
    /\ ranBeforeOrbit = {}
    /\ start = [world |-> Setup, pressed |-> {}]

\* ------------------------------------------------------------ orbit_tilt_control

TiltAt(t) == Mul(TiltAmplitude, Sin(Mul(t.elapsed, TiltSpeed)))

orbit_tilt_control(w, t) == [w EXCEPT !.tilt = TiltAt(t)]

\* ------------------------------------------------------------ orbit_electron_system

\* angle.0 = speed * delta: assignment in place of accumulation.
AdvanceAngleAssign(a, t) == Mul(Speed, t.delta)

\* angle.0 += speed * time.delta_secs()
AdvanceAngle(a, t) == a + Mul(Speed, t.delta)

\* The point on the circle at angle a, rotated about Z by tilt tl.
OrbitPosition(a, tl) ==
    LET x == Mul(Radius, Cos(a))
        z == Mul(Radius, Sin(a))
    IN  QuatRotate(FromAxisAngle(VecZ, tl), Vec3(x, 0, z))

\* Eviction as soon as the buffer is full (>= in place of >).
TracePushEvictEarly(pts, max_points, pos) ==
    LET p == Append(pts, pos)
    IN  IF Len(p) >= max_points THEN Tail(p) ELSE p

\* Eviction of the newest point in place of the oldest (pop in place of remove(0)).
TracePushEvictNewest(pts, max_points, pos) ==
    LET p == Append(pts, pos)
    IN  IF Len(p) > max_points THEN SubSeq(p, 1, Len(p) - 1) ELSE p

\* trace.points.push(pos); if len > max_points { trace.points.remove(0) }
TracePush(pts, max_points, pos) ==
    LET p == Append(pts, pos)
    IN  IF Len(p) > max_points THEN Tail(p) ELSE p

orbit_electron_system(w, t) ==
    LET a   == AdvanceAngle(w.angle, t)
        pos == OrbitPosition(a, w.tilt)
    IN  [w EXCEPT !.angle = a,
                  !.points = TracePush(w.points, MaxPoints, pos),
                  !.transform[ElectronEntity].translation = pos]

\* ------------------------------------------------------------ fly_camera_controller

MoveKeys == {"KeyW", "KeyS", "KeyA", "KeyD", "KeyQ", "KeyE"}
RotationKeys == {"ArrowLeft", "ArrowRight", "ArrowUp", "ArrowDown"}

\* A fixed step per frame, the frame delta forgotten.
RotationStepPerFrame(t) == Mul(RotSpeed, 16)

\* rot_speed * time.delta_secs()
RotationStep(t) == Mul(RotSpeed, t.delta)

\* Only the upper limit applied.
ClampPitchUpperOnly(p) == IF p > PitchLimit THEN PitchLimit ELSE p

\* camera.pitch.clamp(-1.54, 1.54)
ClampPitch(p) ==
    IF p < -PitchLimit THEN -PitchLimit
    ELSE IF p > PitchLimit THEN PitchLimit ELSE p

\* The FlyCamera after the rotation keys are applied.
TurnCamera(c, k, t) ==
    LET y1 == IF "ArrowLeft" \in k.pressed THEN c.yaw + RotationStep(t) ELSE c.yaw
        y2 == IF "ArrowRight" \in k.pressed THEN y1 - RotationStep(t) ELSE y1
        p1 == IF "ArrowUp" \in k.pressed THEN c.pitch + RotationStep(t) ELSE c.pitch
        p2 == IF "ArrowDown" \in k.pressed THEN p1 - RotationStep(t) ELSE p1
    IN  [yaw |-> y2, pitch |-> ClampPitch(p2)]

\* Quat::from_axis_angle(Vec3::Y, yaw) * Quat::from_axis_angle(Vec3::X, pitch)
YawPitchRotation(c) ==
    QuatMul(FromAxisAngle(VecY, c.yaw), FromAxisAngle(VecX, c.pitch))

\* The movement direction accumulated from the pressed movement keys, for a
\* transform tr that already holds the new rotation.
MoveDirection(tr, k, t) ==
    LET f  == VecScale(Forward(tr), t.delta)
        r  == VecScale(Right(tr), t.delta)
        u  == VecScale(VecY, t.delta)
        d1 == IF "KeyW" \in k.pressed THEN VecAdd(VecZero, f) ELSE VecZero
        d2 == IF "KeyS" \in k.pressed THEN VecSub(d1, f) ELSE d1
        d3 == IF "KeyA" \in k.pressed THEN VecSub(d2, r) ELSE d2
        d4 == IF "KeyD" \in k.pressed THEN VecAdd(d3, r) ELSE d3
        d5 == IF "KeyQ" \in k.pressed THEN VecAdd(d4, u) ELSE d4
        d6 == IF "KeyE" \in k.pressed THEN VecSub(d5, u) ELSE d5
    IN  d6

\* The guard left out.
ShouldMoveAlways(direction) == TRUE

\* direction.length_squared() > 0.0
ShouldMove(direction) == LengthSquared(direction) > 0

\* The Transform of one camera after the controller's loop body.
MoveCamera(tr, c, k, t) ==
    LET rotated   == [tr EXCEPT !.rotation = YawPitchRotation(c)]
        direction == MoveDirection(rotated, k, t)
    IN  IF ShouldMove(direction)
        THEN [rotated EXCEPT !.translation =
                 VecAdd(@, VecScale(VecScale(Normalize(direction), MoveSpeed),
                                    t.delta))]
        ELSE rotated

\* Whether the loop body normalizes a zero direction for camera e.
NormalizesZero(w, e, k, t) ==
    LET c         == TurnCamera(w.fly_camera[e], k, t)
        rotated   == [w.transform[e] EXCEPT !.rotation = YawPitchRotation(c)]
        direction == MoveDirection(rotated, k, t)
    IN  ShouldMove(direction) /\ direction = VecZero

fly_camera_controller(w, k, t) ==
    LET cam == [e \in FlyCameraEntities |-> TurnCamera(w.fly_camera[e], k, t)]
    IN  [w EXCEPT !.fly_camera = cam,
                  !.transform =
                      [e \in Entities |->
                          IF e \in FlyCameraEntities
                          THEN MoveCamera(w.transform[e], cam[e], k, t)
                          ELSE w.transform[e]]]

\* ------------------------------------------------------------ grid

\* Level-triggered: keyboard_input.pressed in place of just_pressed.
ToggleWhilePressed(k) == "Space" \in k.pressed

\* keyboard_input.just_pressed(KeyCode::Space)
ToggleEvent(k) == "Space" \in k.just_pressed

grid(w, k) ==
    [w EXCEPT !.grid_enabled = IF ToggleEvent(k) THEN ~w.grid_enabled
                               ELSE w.grid_enabled]

\* ------------------------------------------------------------ the frame loop

\* Write a world record back to the state variables.
Commit(w) ==
    /\ angle' = w.angle
    /\ tilt' = w.tilt
    /\ points' = w.points
    /\ transform' = w.transform
    /\ fly_camera' = w.fly_camera
    /\ grid_enabled' = w.grid_enabled

\* A new frame: the engine advances Time and ButtonInput, then schedules every
\* Update system once.
BeginFrame ==
    /\ pending = {}
    /\ frame < MaxFrames
    /\ \E d \in Deltas, k \in KeyCombos :
          /\ delta' = d
          /\ elapsed' = elapsed + d
          /\ pressed' = k
          /\ just_pressed' = k \ pressed
    /\ frame' = frame + 1
    /\ pending' = Systems
    /\ start' = [world |-> World, pressed |-> pressed]
    /\ ranBeforeOrbit' = {}
    /\ UNCHANGED <<angle, tilt, points, transform, fly_camera, grid_enabled,
                   pushed, tiltRead, zeroNormalized>>

RunOrbitTiltControl ==
    /\ "orbit_tilt_control" \in pending
    /\ pending' = pending \ {"orbit_tilt_control"}
    /\ Commit(orbit_tilt_control(World, Time))
    /\ UNCHANGED <<elapsed, delta, pressed, just_pressed, frame, pushed,
                   tiltRead, zeroNormalized, ranBeforeOrbit, start>>

RunOrbitElectronSystem ==
    /\ "orbit_electron_system" \in pending
    /\ pending' = pending \ {"orbit_electron_system"}
    /\ Commit(orbit_electron_system(World, Time))
    /\ pushed' = Append(pushed, OrbitPosition(AdvanceAngle(angle, Time), tilt))
    /\ tiltRead' = tilt
    /\ ranBeforeOrbit' = Systems \ pending
    /\ UNCHANGED <<elapsed, delta, pressed, just_pressed, frame,
                   zeroNormalized, start>>

RunFlyCameraController ==
    /\ "fly_camera_controller" \in pending
    /\ pending' = pending \ {"fly_camera_controller"}
    /\ Commit(fly_camera_controller(World, Keys, Time))
    /\ zeroNormalized' =
          (zeroNormalized
             \/ \E e \in FlyCameraEntities : NormalizesZero(World, e, Keys, Time))
    /\ UNCHANGED <<elapsed, delta, pressed, just_pressed, frame, pushed,
                   tiltRead, ranBeforeOrbit, start>>

RunGrid ==
    /\ "grid" \in pending
    /\ pending' = pending \ {"grid"}
    /\ Commit(grid(World, Keys))
    /\ UNCHANGED <<elapsed, delta, pressed, just_pressed, frame, pushed,
                   tiltRead, zeroNormalized, ranBeforeOrbit, start>>

Next ==
    \/ BeginFrame
    \/ RunOrbitTiltControl
    \/ RunOrbitElectronSystem
    \/ RunFlyCameraController
    \/ RunGrid

Spec == Init /\ [][Next]_vars

\* ------------------------------------------------------------ properties

Ran(sys) == frame > 0 /\ sys \notin pending
FrameDone == frame > 0 /\ pending = {}
Min(a, b) == IF a < b THEN a ELSE b
Last(q) == q[Len(q)]
CameraTranslationKept ==
    \A e \in FlyCameraEntities :
        transform[e].translation = start.world.transform[e].translation

\* The frame's systems run in the order tilt, orbit, camera, grid from the
\* state the frame started in.
CanonicalFrame ==
    grid(fly_camera_controller(
             orbit_electron_system(orbit_tilt_control(start.world, Time), Time),
             Keys, Time),
         Keys)

\* C1: after m runs of orbit_electron_system the trace buffer holds exactly the
\* last min(m, N) pushed positions in push order, one push per frame, so its
\* length never exceeds N and an overflow drops only the oldest point.
C1_TraceHoldsLastPushed ==
    LET m == Len(pushed)
        n == Min(m, MaxPoints)
    IN  /\ m = IF "orbit_electron_system" \in pending THEN frame - 1 ELSE frame
        /\ Len(points) <= MaxPoints
        /\ points = SubSeq(pushed, m - n + 1, m)

C1_Witness ==
    /\ Len(pushed) > MaxPoints
    /\ Len(points) = MaxPoints
    /\ points[1] # pushed[1]
    /\ points[1] = pushed[Len(pushed) - MaxPoints + 1]

\* C2: once both systems have run in a frame, the tilt that
\* orbit_electron_system read is the tilt orbit_tilt_control wrote in that
\* frame (the write precedes the read in every schedule).
C2_OrbitReadsSameFrameTilt ==
    Ran("orbit_electron_system") => tiltRead = TiltAt(Time)

\* C3 as stated: a frame with delta = 0 leaves the orbit angle, the tilt, the
\* trace buffer, every transform and the camera yaw and pitch as they were.
C3_NullFrameChangesNothing ==
    (FrameDone /\ delta = 0) =>
        /\ angle = start.world.angle
        /\ tilt = start.world.tilt
        /\ points = start.world.points
        /\ transform = start.world.transform
        /\ fly_camera = start.world.fly_camera

\* C3 amended: a frame with delta = 0 leaves the orbit angle, the tilt and the
\* camera yaw, pitch and position as they were, whatever keys are pressed.
C3_NullFrameKeepsAngleTiltCamera ==
    (FrameDone /\ delta = 0) =>
        /\ angle = start.world.angle
        /\ tilt = start.world.tilt
        /\ fly_camera = start.world.fly_camera
        /\ CameraTranslationKept

C3_Witness ==
    /\ FrameDone
    /\ delta = 0
    /\ elapsed > 0
    /\ pressed \cap RotationKeys # {}
    /\ pressed \cap MoveKeys # {}
    /\ points # start.world.points
    /\ fly_camera = start.world.fly_camera
    /\ CameraTranslationKept

\* C4: the camera pitch is within [-1.54, 1.54] in every reachable state.
C4_PitchWithinLimit ==
    \A e \in FlyCameraEntities :
        /\ fly_camera[e].pitch >= -PitchLimit
        /\ fly_camera[e].pitch <= PitchLimit

C4_Witness ==
    /\ Ran("fly_camera_controller")
    /\ "ArrowDown" \in pressed
    /\ \E e \in FlyCameraEntities :
          /\ fly_camera[e].pitch = -PitchLimit
          /\ start.world.fly_camera[e].pitch - RotationStep(Time) < -PitchLimit

\* C5: Grid.enabled starts false, flips exactly once in each frame in which
\* Space goes from released to pressed, and is unchanged in every other frame.
C5_GridTogglesOnEdge ==
    LET edge == "Space" \in pressed /\ "Space" \notin start.pressed
    IN  /\ frame = 0 => ~grid_enabled
        /\ (frame > 0 /\ "grid" \in pending) =>
              grid_enabled = start.world.grid_enabled
        /\ Ran("grid") =>
              grid_enabled = IF edge THEN ~start.world.grid_enabled
                             ELSE start.world.grid_enabled

C5_Witness ==
    /\ FrameDone
    /\ frame >= 2
    /\ "Space" \in pressed
    /\ "Space" \in start.pressed
    /\ start.world.grid_enabled
    /\ grid_enabled

\* C6: with no movement key pressed, fly_camera_controller leaves the camera
\* position as it was, for every delta and every rotation key; a zero
\* direction is never normalized.
C6_NoMoveKeyKeepsPosition ==
    /\ ~zeroNormalized
    /\ (Ran("fly_camera_controller") /\ pressed \cap MoveKeys = {}) =>
          CameraTranslationKept

C6_Witness ==
    /\ Ran("fly_camera_controller")
    /\ pressed \cap MoveKeys = {}
    /\ pressed \cap RotationKeys # {}
    /\ delta > 0
    /\ fly_camera # start.world.fly_camera
    /\ CameraTranslationKept

\* C7: the orbit angle never decreases over a frame and, once
\* orbit_electron_system has run, equals speed times the sum of all deltas so
\* far; before it runs in a frame the angle is still the previous frame's sum.
C7_AngleIsSumOfSpeedDelta ==
    /\ angle >= start.world.angle
    /\ angle = Mul(Speed, IF "orbit_electron_system" \in pending
                          THEN elapsed - delta ELSE elapsed)

C7_Witness ==
    /\ FrameDone
    /\ delta > 0
    /\ start.world.angle > 0
    /\ angle > start.world.angle

\* C8: every order of the four systems that runs orbit_tilt_control before
\* orbit_electron_system ends the frame in the same state as the order
\* tilt, orbit, camera, grid.
C8_OrderInsensitive ==
    (FrameDone /\ "orbit_tilt_control" \in ranBeforeOrbit) =>
        World = CanonicalFrame

C8_Witness ==
    /\ FrameDone
    /\ ranBeforeOrbit = Systems \ {"orbit_electron_system"}
    /\ delta > 0
    /\ pressed \cap MoveKeys # {}
    /\ "Space" \in just_pressed
    /\ World = CanonicalFrame
    /\ World # start.world

\* C9: in every reachable state, the state after setup included, the fly
\* camera's rotation is the yaw rotation about Y times the pitch rotation
\* about X of its stored yaw and pitch.
C9_OrientationDerivedFromYawPitch ==
    \A e \in FlyCameraEntities :
        transform[e].rotation = YawPitchRotation(fly_camera[e])

\* C10: once orbit_electron_system has run, the trace is non-empty and its
\* newest point is the electron's current position; each run appends exactly
\* one point, and nothing else writes the trace or the electron position.
C10_TraceTailIsElectron ==
    /\ Len(pushed) >= 1 =>
          /\ Len(points) >= 1
          /\ Last(points) = transform["Electron"].translation
          /\ Last(points) = Last(pushed)
    /\ Ran("orbit_electron_system") =>
          Len(points) = Min(Len(start.world.points) + 1, MaxPoints)
    /\ (frame > 0 /\ "orbit_electron_system" \in pending) =>
          /\ points = start.world.points
          /\ transform["Electron"] = start.world.transform["Electron"]

C10_Witness ==
    /\ Ran("orbit_electron_system")
    /\ Len(pushed) > MaxPoints
    /\ Last(points) = transform["Electron"].translation
    /\ Last(points) # start.world.transform["Electron"].translation

====
